---- MODULE Spec2Model ----
(***************************************************************************)
(* Model of the media gateway (functions/r2/[key].ts) and of the client    *)
(* media card (frontend/src/components/MediaCard.tsx).                     *)
(*                                                                         *)
(* Strings that the code inspects character by character (the key token,   *)
(* the storage path) are sequences of one-character strings.  Values the   *)
(* code only tests for presence or truthiness (headers, query parameters)  *)
(* are TLA+ strings, with NULL standing for JavaScript null / undefined.   *)
(***************************************************************************)
EXTENDS Integers, Sequences, FiniteSets, TLC

VARIABLES
    kv,         \* RATE_LIMIT_KV: composite key -> rate-limit record
    now,        \* Date.now()
    req,        \* request slots: one onRequestGet invocation each
    nreq,       \* number of requests received so far
    admitted,   \* history: per key and window start, requests admitted
    segs,       \* key codec: the path segments given to the encoder
    token,      \* key codec: the encoded token
    decoded,    \* key codec: the result of split + decodeURIComponent
    cpc,        \* key codec: position in encode / decode
    env,        \* context.env: RATE_LIMIT_REQUESTS, RATE_LIMIT_WINDOW_MS
    mounted,            \* card: the component is mounted
    containerRef,       \* card: containerRef.current
    url,                \* card: the url prop
    videoThumb,         \* card: state videoThumb
    isGeneratingThumb,  \* card: state isGeneratingThumb
    effectDeps,         \* card: the dependencies the effect last ran with
    observer,           \* card: the effect's IntersectionObserver is observing
    entries,            \* card: intersection entries not yet delivered
    visible,            \* card: at least 10% of the card is in the viewport
    gen,                \* card: where the running generate() waits
    attempts,           \* card history: captures started
    failed,             \* card history: a capture has failed
    observers,          \* card: IntersectionObservers observing the element
    lastEvent,          \* card history: the attempt's last media event
    captured,           \* card history: what the attempt's canvas step did
    imgMounted,         \* image card: the MediaCard is mounted
    src,                \* image card: the src prop of AdaptiveImage
    aspectRatio,        \* image card: state aspectRatio
    imgEffectDeps,      \* image card: the dependencies the effect last ran with
    renders,            \* image card: renders of MediaCard after the first
    loads,              \* image card: off-DOM Image objects still loading
    started,            \* image card history: measuring loads started per src
    loaded,             \* image card: MediaCard state loaded
    isHovered           \* image card: MediaCard state isHovered

gatewayVars == <<kv, now, req, nreq, admitted, env>>
codecVars == <<segs, token, decoded, cpc>>
cardVars ==
    <<mounted, containerRef, url, videoThumb, isGeneratingThumb, effectDeps,
      observer, entries, visible, gen, attempts, failed, observers, lastEvent,
      captured>>

imageVars ==
    <<imgMounted, src, aspectRatio, imgEffectDeps, renders, loads, started,
      loaded, isHovered>>

vars == <<gatewayVars, codecVars, cardVars, imageVars>>

NULL == "<null>"

(***************************************************************************)
(* Bounds of the model.                                                    *)
(***************************************************************************)
MaxParts == 3       \* delimiter-separated parts of a requested token
MaxRequests == 4    \* requests received in one behaviour
MaxTime == 3        \* clock ticks in one behaviour
MaxSegLen == 3      \* characters of a segment given to the encoder
MaxSegs == 2        \* segments given to the encoder
MaxAttempts == 2    \* captures a card starts in one behaviour
MaxEntries == 2     \* intersection entries queued for one callback
MaxRenders == 3     \* renders of an image card caused by hover or a new src

(***************************************************************************)
(* Strings.                                                                *)
(***************************************************************************)
Str3(a, b, c) == <<a, b, c>>

DELIM == Str3("_", "_", "_")

\* s.startsWith(p)
StartsWith(s, p) ==
    /\ Len(s) >= Len(p)
    /\ SubSeq(s, 1, Len(p)) = p

\* index of the first occurrence of p in s at or after i, 0 when there is none
RECURSIVE IndexFrom(_, _, _)
IndexFrom(s, p, i) ==
    IF i + Len(p) - 1 > Len(s) THEN 0
    ELSE IF SubSeq(s, i, i + Len(p) - 1) = p THEN i
    ELSE IndexFrom(s, p, i + 1)

\* s.includes(p)
Includes(s, p) == IndexFrom(s, p, 1) # 0

\* s.split(d), d non-empty: the pieces between successive occurrences of d,
\* searched left to right
RECURSIVE Split(_, _)
Split(s, d) ==
    LET i == IndexFrom(s, d, 1)
    IN  IF i = 0 THEN <<s>>
        ELSE <<SubSeq(s, 1, i - 1)>> \o Split(SubSeq(s, i + Len(d), Len(s)), d)

\* parts.join(d)
RECURSIVE Join(_, _)
Join(parts, d) ==
    IF Len(parts) = 0 THEN <<>>
    ELSE IF Len(parts) = 1 THEN parts[1]
    ELSE parts[1] \o d \o Join(Tail(parts), d)

(***************************************************************************)
(* encodeURIComponent / decodeURIComponent on the model's characters.      *)
(***************************************************************************)
\* characters encodeURIComponent leaves as they are
Unreserved == {"x", ".", "_", "R", "U"}

\* the escape of a character encodeURIComponent does not leave alone
Escape(c) ==
    CASE c = "/"  -> Str3("%", "2", "F")
      [] c = "\\" -> Str3("%", "5", "C")
      [] c = "%"  -> Str3("%", "2", "5")
      [] c = "\"" -> Str3("%", "2", "2")
      [] c = ","  -> Str3("%", "2", "C")

RECURSIVE EncodeURIComponent(_)
EncodeURIComponent(s) ==
    IF Len(s) = 0 THEN <<>>
    ELSE (IF Head(s) \in Unreserved THEN <<Head(s)>> ELSE Escape(Head(s)))
         \o EncodeURIComponent(Tail(s))

HexDigits == {"2", "5", "C", "F"}

\* the character of the byte %hl; bytes of 0x80 and above (first digit C or F)
\* start a multi-byte UTF-8 sequence, whose continuation bytes %8x..%Bx cannot
\* be written with the model's digits: decodeURIComponent throws on them
ByteChar(h, l) ==
    CASE h = "2" /\ l = "F" -> "/"
      [] h = "5" /\ l = "C" -> "\\"
      [] h = "2" /\ l = "5" -> "%"
      [] h = "2" /\ l = "2" -> "\""
      [] h = "2" /\ l = "C" -> ","
      [] h = "5" /\ l = "2" -> "R"
      [] h = "5" /\ l = "5" -> "U"
      [] h = "5" /\ l = "F" -> "_"
      [] OTHER -> NULL

\* decodeURIComponent(s): [ok |-> TRUE, str |-> the decoded string], or
\* ok = FALSE when it throws URIError
RECURSIVE DecodeURIComponent(_)
DecodeURIComponent(s) ==
    IF Len(s) = 0 THEN [ok |-> TRUE, str |-> <<>>]
    ELSE IF Head(s) # "%"
    THEN LET rest == DecodeURIComponent(Tail(s))
         IN  [ok |-> rest.ok, str |-> <<Head(s)>> \o rest.str]
    ELSE IF Len(s) < 3 \/ s[2] \notin HexDigits \/ s[3] \notin HexDigits
              \/ ByteChar(s[2], s[3]) = NULL
    THEN [ok |-> FALSE, str |-> <<>>]
    ELSE LET rest == DecodeURIComponent(SubSeq(s, 4, Len(s)))
         IN  [ok |-> rest.ok, str |-> <<ByteChar(s[2], s[3])>> \o rest.str]

(***************************************************************************)
(* Key codec.                                                              *)
(***************************************************************************)
\* the token of a segment sequence: encodeURIComponent(a)___encodeURIComponent(b)...
Encode(ss) == Join([i \in 1..Len(ss) |-> EncodeURIComponent(ss[i])], DELIM)

\* key.split('___').map(decodeURIComponent): ok = FALSE when some part throws
DecodeParts(t) ==
    LET parts == Split(t, DELIM)
        dec == [i \in 1..Len(parts) |-> DecodeURIComponent(parts[i])]
    IN  [ok |-> \A i \in 1..Len(parts) : dec[i].ok,
         parts |-> [i \in 1..Len(parts) |-> dec[i].str]]

\* .join('/')
JoinPath(parts) == Join(parts, <<"/">>)

(***************************************************************************)
(* Rate limiter (lib/security, checkRateLimit).                            *)
(***************************************************************************)
NoRecord == [present |-> FALSE, windowStart |-> 0, count |-> 0]

\* the record checkRateLimit stores and the answer it gives, from the record
\* it read, the time it read and the configured limit and window
RateDecision(rec, t, limit, windowMs) ==
    IF ~rec.present \/ t - rec.windowStart >= windowMs
    THEN [rec |-> [present |-> TRUE, windowStart |-> t, count |-> 1],
          allowed |-> TRUE]
    ELSE [rec |-> [rec EXCEPT !.count = @ + 1],
          allowed |-> rec.count + 1 <= limit]

(***************************************************************************)
(* Object gateway (onRequestGet).                                          *)
(***************************************************************************)
DefaultLimit == 50
DefaultWindowMs == 60000

\* the limit taken from the window variable
LimitFromWindow ==
    IF env.RATE_LIMIT_WINDOW_MS = 0 THEN DefaultWindowMs ELSE env.RATE_LIMIT_WINDOW_MS

\* context.env.RATE_LIMIT_REQUESTS || 50 (an unset variable is modelled as 0)
Limit == IF env.RATE_LIMIT_REQUESTS = 0 THEN DefaultLimit ELSE env.RATE_LIMIT_REQUESTS

\* context.env.RATE_LIMIT_WINDOW_MS || 60000
WindowMs ==
    IF env.RATE_LIMIT_WINDOW_MS = 0 THEN DefaultWindowMs ELSE env.RATE_LIMIT_WINDOW_MS

\* headers.get('CF-Connecting-IP') || 'unknown'
ClientIp(header) == IF header = NULL \/ header = "" THEN "unknown" ELSE header

Ips == {"unknown", "203.0.113.7"}

\* !!v of a string-or-null value
Truthy(v) == v # NULL /\ v # ""

MediaType(major, minor) == [major |-> major, minor |-> minor]

NoType == MediaType("", "")
OctetStream == MediaType("application", "octet-stream")
TextPlain == MediaType("text", "plain")
Json == MediaType("application", "json")

NoCache == "none"
OneYear == "public, max-age=31536000"

\* what R2.get resolves to: null (found = FALSE) or an object, whose
\* httpMetadata.contentType may be absent (hasType = FALSE)
NoObject == [found |-> FALSE, hasType |-> FALSE, contentType |-> NoType]
StoredObject(ct) == [found |-> TRUE, hasType |-> TRUE, contentType |-> ct]
UntypedObject == [found |-> TRUE, hasType |-> FALSE, contentType |-> NoType]

Response(status, body, ct, cache, fields) ==
    [status |-> status, body |-> body, contentType |-> ct,
     cacheControl |-> cache, fields |-> fields]

NoResponse == Response(0, "none", NoType, NoCache, {})

\* new Response('...', { status: 429 })
TooManyRequests == Response(429, "text", TextPlain, NoCache, {})
\* new Response('...', { status: 400 })
InvalidPath == Response(400, "text", TextPlain, NoCache, {})
\* new Response('...', { status: 404 })
NotFound == Response(404, "text", TextPlain, NoCache, {})
\* an exception escaping the handler: the runtime answers with an error page
Unhandled == Response(500, "exception", NoType, NoCache, {})

\* the path check never rejecting
PathRejectedNever(key) == FALSE

\* key.includes('../') || key.includes('..\\') || key.startsWith('/')
PathRejected(key) ==
    \/ Includes(key, Str3(".", ".", "/"))
    \/ Includes(key, Str3(".", ".", "\\"))
    \/ StartsWith(key, <<"/">>)

\* the rejection never taken
RateLimitedNever(allowed) == FALSE

\* the test of the answer inverted
RateLimitedInverted(allowed) == allowed

\* !rateLimitResult.allowed
RateLimited(allowed) == ~allowed

\* the miss never detected
ObjectMissingNever(obj) == FALSE

\* !obj
ObjectMissing(obj) == ~obj.found

\* obj.httpMetadata?.contentType?.startsWith('video/')
IsVideo(obj) == obj.hasType /\ obj.contentType.major = "video"

\* obj.httpMetadata?.contentType?.startsWith('image/')
IsImage(obj) == obj.hasType /\ obj.contentType.major = "image"

\* only the width consulted
ResizeWidthOnly(width, height) == Truthy(width)

\* (width || height)
ResizeRequested(width, height) == Truthy(width) \/ Truthy(height)

\* the response built without the default content type
NegotiateNoDefault(obj, width, height) ==
    IF ResizeRequested(width, height) /\ IsVideo(obj)
    THEN Response(400, "json", Json, NoCache, {"error", "suggestion"})
    ELSE Response(200, "bytes", obj.contentType, OneYear, {})

\* the response built from a found object and the query
Negotiate(obj, width, height) ==
    LET ct == IF obj.hasType /\ obj.contentType # NoType
              THEN obj.contentType ELSE OctetStream
    IN  IF ResizeRequested(width, height) /\ IsImage(obj)
        THEN Response(200, "bytes", obj.contentType, OneYear, {})
        ELSE IF ResizeRequested(width, height) /\ IsVideo(obj)
        THEN Response(400, "json", Json, NoCache, {"error", "suggestion"})
        ELSE Response(200, "bytes", ct, OneYear, {})

IdleRequest ==
    [pc |-> "idle", header |-> NULL, keyParam |-> <<>>, width |-> NULL,
     height |-> NULL, rlNow |-> 0, rlRec |-> NoRecord, allowed |-> FALSE,
     decodedKey |-> FALSE, checked |-> FALSE, key |-> <<>>, gets |-> 0,
     puts |-> 0, obj |-> NoObject, resp |-> NoResponse]

Slots == DOMAIN req

\* a request arrives: its header, key parameter and query string
Receive(r, headers, tokens, widths, heights) ==
    /\ req[r].pc \in {"idle", "done"}
    /\ nreq < MaxRequests
    /\ \E h \in headers, t \in tokens, w \in widths, g \in heights :
          req' = [req EXCEPT ![r] =
                    [IdleRequest EXCEPT !.pc = "rateGet", !.header = h,
                                        !.keyParam = t, !.width = w, !.height = g]]
    /\ nreq' = nreq + 1
    /\ UNCHANGED <<kv, now, admitted, env>>

\* checkRateLimit reads the clock and the stored record
CheckRateLimitGet(r) ==
    /\ req[r].pc = "rateGet"
    /\ req' = [req EXCEPT ![r].pc = "ratePut", ![r].rlNow = now,
                          ![r].rlRec = kv[ClientIp(req[r].header)]]
    /\ UNCHANGED <<kv, now, nreq, admitted, env>>

\* checkRateLimit stores the new record and resolves
CheckRateLimitPut(r) ==
    /\ req[r].pc = "ratePut"
    /\ LET ip == ClientIp(req[r].header)
           d == RateDecision(req[r].rlRec, req[r].rlNow, Limit, WindowMs)
       IN  /\ kv' = [kv EXCEPT ![ip] = d.rec]
           /\ req' = [req EXCEPT ![r].pc = "rateDone", ![r].allowed = d.allowed]
           /\ admitted' =
                 IF d.allowed
                 THEN [admitted EXCEPT ![ip][d.rec.windowStart] = @ + 1]
                 ELSE admitted
    /\ UNCHANGED <<now, nreq, env>>

\* onRequestGet from the rate-limit answer to the object-store lookup
GatewayContinue(r) ==
    /\ req[r].pc = "rateDone"
    /\ LET d == DecodeParts(req[r].keyParam)
           key == JoinPath(d.parts)
       IN  req' =
             IF RateLimited(req[r].allowed)
             THEN [req EXCEPT ![r].pc = "done", ![r].resp = TooManyRequests]
             ELSE IF ~d.ok
             THEN [req EXCEPT ![r].pc = "done", ![r].decodedKey = TRUE,
                              ![r].resp = Unhandled]
             ELSE IF PathRejected(key)
             THEN [req EXCEPT ![r].pc = "done", ![r].decodedKey = TRUE,
                              ![r].checked = TRUE, ![r].key = key,
                              ![r].resp = InvalidPath]
             ELSE [req EXCEPT ![r].pc = "storeGet", ![r].decodedKey = TRUE,
                              ![r].checked = TRUE, ![r].key = key,
                              ![r].gets = @ + 1]
    /\ UNCHANGED <<kv, now, nreq, admitted, env>>

\* R2.get resolves; onRequestGet from there to its return
StoreReply(r, objects) ==
    /\ req[r].pc = "storeGet"
    /\ \E o \in objects :
          req' = [req EXCEPT ![r].pc = "done", ![r].obj = o,
                    ![r].resp = IF ObjectMissing(o) THEN NotFound
                                \* obj.httpMetadata of null throws
                                ELSE IF ~o.found THEN Unhandled
                                ELSE Negotiate(o, req[r].width, req[r].height)]
    /\ UNCHANGED <<kv, now, nreq, admitted, env>>

\* time passes
Tick ==
    /\ now < MaxTime
    /\ now' = now + 1
    /\ UNCHANGED <<kv, req, nreq, admitted, env>>

(***************************************************************************)
(* Key codec: the client encodes a segment sequence, the gateway decodes   *)
(* the token.                                                              *)
(***************************************************************************)
CodecEncode ==
    /\ cpc = "input"
    /\ token' = Encode(segs)
    /\ cpc' = "encoded"
    /\ UNCHANGED <<segs, decoded, gatewayVars, cardVars, imageVars>>

CodecDecode ==
    /\ cpc = "encoded"
    /\ decoded' = DecodeParts(token)
    /\ cpc' = "decoded"
    /\ UNCHANGED <<segs, token, gatewayVars, cardVars, imageVars>>

(***************************************************************************)
(* Video card (VideoThumbnailGenerator).                                   *)
(*                                                                         *)
(* The component's JSX (lines 187-206) gives containerRef to no element,   *)
(* so in the component as written containerRef.current stays null and the  *)
(* effect returns at line 80.  The value of containerRef.current is kept   *)
(* as a variable: with NULL the effect never registers an observer, with   *)
(* an element it runs the pipeline of lines 82-184.                        *)
(***************************************************************************)
Urls == {"u1", "u2"}
DataUrl == "data:image/jpeg"

\* [url, videoThumb, isGeneratingThumb]
Deps == [ran |-> TRUE, url |-> url, videoThumb |-> videoThumb,
         isGeneratingThumb |-> isGeneratingThumb]
NoDeps == [ran |-> FALSE, url |-> NULL, videoThumb |-> NULL,
           isGeneratingThumb |-> FALSE]

\* if (videoThumb || isGeneratingThumb) return
EffectSkipsThumbOnly == Truthy(videoThumb)
EffectSkipsFlagOnly == isGeneratingThumb
EffectSkips == Truthy(videoThumb) \/ isGeneratingThumb

\* observers left observing after the cleanup of the effect's previous run
AfterCleanup == IF observer THEN observers - 1 ELSE observers

\* React runs the effect after the first render and after a render in which
\* a dependency changed: the cleanup of the previous run, then the body
RunEffect ==
    /\ mounted
    /\ effectDeps # Deps
    /\ effectDeps' = Deps
    /\ IF EffectSkips \/ containerRef = NULL
       THEN /\ observer' = FALSE
            /\ observers' = AfterCleanup
            /\ entries' = <<>>
       ELSE /\ observer' = TRUE
            /\ observers' = AfterCleanup + 1
            /\ entries' = <<visible>>
    /\ UNCHANGED <<mounted, containerRef, url, videoThumb, isGeneratingThumb,
                   visible, gen, attempts, failed, lastEvent, captured>>

\* the card scrolls across the visibility threshold
Scroll ==
    /\ ~observer \/ Len(entries) < MaxEntries
    /\ visible' = ~visible
    /\ entries' = IF observer THEN Append(entries, ~visible) ELSE entries
    /\ UNCHANGED <<mounted, containerRef, url, videoThumb, isGeneratingThumb,
                   effectDeps, observer, observers, gen, attempts, failed,
                   lastEvent, captured>>

\* some delivered entry has isIntersecting
Intersecting(es) == \E i \in 1..Len(es) : es[i]

\* the observer's callback without the disconnect of lines 171-174
ObserverCallbackKeepsObserving ==
    /\ observer
    /\ entries # <<>>
    /\ entries' = <<>>
    /\ IF Intersecting(entries)
       THEN /\ attempts < MaxAttempts
            /\ isGeneratingThumb' = TRUE
            /\ gen' = "metadata"
            /\ attempts' = attempts + 1
            /\ lastEvent' = "none"
            /\ captured' = "none"
            /\ UNCHANGED <<observer, observers>>
       ELSE UNCHANGED <<isGeneratingThumb, gen, attempts, observer, observers,
                        lastEvent, captured>>
    /\ UNCHANGED <<mounted, containerRef, url, videoThumb, effectDeps, visible,
                   failed>>

\* the observer's callback: start() on the first intersecting entry, then
\* disconnect
ObserverCallback ==
    /\ observer
    /\ entries # <<>>
    /\ entries' = <<>>
    /\ IF Intersecting(entries)
       THEN /\ attempts < MaxAttempts
            /\ isGeneratingThumb' = TRUE
            /\ gen' = "metadata"
            /\ attempts' = attempts + 1
            /\ lastEvent' = "none"
            /\ captured' = "none"
            /\ observer' = FALSE
            /\ observers' = observers - 1
       ELSE UNCHANGED <<isGeneratingThumb, gen, attempts, observer, observers,
                        lastEvent, captured>>
    /\ UNCHANGED <<mounted, containerRef, url, videoThumb, effectDeps, visible,
                   failed>>

\* what the rest of generate() leaves: the thumbnail stored (when thumb is
\* not NULL), then isGeneratingThumb reset; state setters of an unmounted
\* component do nothing
Finish(thumb, threw) ==
    /\ gen' = "none"
    /\ videoThumb' = IF ~mounted THEN videoThumb
                     ELSE IF threw THEN NULL
                     ELSE IF thumb # NULL THEN thumb
                     ELSE videoThumb
    /\ isGeneratingThumb' = IF mounted THEN FALSE ELSE isGeneratingThumb
    /\ failed' = (failed \/ threw)

\* drawing and encoding the frame: the data URL is stored, or
\* canvas.getContext gives no context, or drawImage / toDataURL throws
Capture ==
    \/ Finish(DataUrl, FALSE) /\ captured' = "stored"
    \/ Finish(NULL, FALSE) /\ captured' = "noContext"
    \/ Finish(NULL, TRUE) /\ captured' = "threw"

\* 'loadedmetadata' without the try/catch of lines 134-140: a throwing
\* assignment of currentTime rejects the attempt
MetadataLoadedNoCatch ==
    /\ gen = "metadata"
    /\ \/ /\ gen' = "seek"
          /\ lastEvent' = "loadedmetadata"
          /\ UNCHANGED <<videoThumb, isGeneratingThumb, failed, captured>>
       \/ /\ lastEvent' = "seekThrew"
          /\ Finish(NULL, TRUE)
          /\ UNCHANGED captured
    /\ UNCHANGED <<mounted, containerRef, url, effectDeps, observer, observers,
                   entries, visible, attempts>>

\* 'loadedmetadata': the seek is requested; setting currentTime may throw,
\* which removes the seek listeners and resolves the seek wait at once
MetadataLoaded ==
    /\ gen = "metadata"
    /\ \/ /\ gen' = "seek"
          /\ lastEvent' = "loadedmetadata"
          /\ UNCHANGED <<videoThumb, isGeneratingThumb, failed, captured>>
       \/ /\ lastEvent' = "seekThrew"
          /\ Capture
    /\ UNCHANGED <<mounted, containerRef, url, effectDeps, observer, observers,
                   entries, visible, attempts>>

\* 'error' while waiting for the metadata
MetadataError ==
    /\ gen = "metadata"
    /\ lastEvent' = "error"
    /\ Finish(NULL, TRUE)
    /\ UNCHANGED <<mounted, containerRef, url, effectDeps, observer, observers,
                   entries, visible, attempts, captured>>

\* 'seeked'
Seeked ==
    /\ gen = "seek"
    /\ lastEvent' = "seeked"
    /\ Capture
    /\ UNCHANGED <<mounted, containerRef, url, effectDeps, observer, observers,
                   entries, visible, attempts>>

\* 'error' while waiting for the seek
SeekError ==
    /\ gen = "seek"
    /\ lastEvent' = "error"
    /\ Finish(NULL, TRUE)
    /\ UNCHANGED <<mounted, containerRef, url, effectDeps, observer, observers,
                   entries, visible, attempts, captured>>

\* the parent renders the card with another url
UrlChange ==
    /\ mounted
    /\ \E u \in Urls \ {url} : url' = u
    /\ UNCHANGED <<mounted, containerRef, videoThumb, isGeneratingThumb,
                   effectDeps, observer, observers, entries, visible, gen,
                   attempts, failed, lastEvent, captured>>

\* unmounting without the cleanup of lines 182-184
UnmountNoCleanup ==
    /\ mounted
    /\ mounted' = FALSE
    /\ UNCHANGED <<containerRef, url, videoThumb, isGeneratingThumb, effectDeps,
                   observer, observers, entries, visible, gen, attempts, failed,
                   lastEvent, captured>>

\* the card unmounts: the effect's cleanup disconnects the observer
Unmount ==
    /\ mounted
    /\ mounted' = FALSE
    /\ observer' = FALSE
    /\ observers' = AfterCleanup
    /\ entries' = <<>>
    /\ UNCHANGED <<containerRef, url, videoThumb, isGeneratingThumb, effectDeps,
                   visible, gen, attempts, failed, lastEvent, captured>>

CardInit(refs) ==
    /\ mounted = TRUE
    /\ containerRef \in refs
    /\ url \in Urls
    /\ videoThumb = NULL
    /\ isGeneratingThumb = FALSE
    /\ effectDeps = NoDeps
    /\ observer = FALSE
    /\ observers = 0
    /\ entries = <<>>
    /\ visible \in BOOLEAN
    /\ gen = "none"
    /\ attempts = 0
    /\ failed = FALSE
    /\ lastEvent = "none"
    /\ captured = "none"

\* no card in the behaviour
CardIdle ==
    /\ mounted = FALSE
    /\ containerRef = NULL
    /\ url = "u1"
    /\ videoThumb = NULL
    /\ isGeneratingThumb = FALSE
    /\ effectDeps = NoDeps
    /\ observer = FALSE
    /\ observers = 0
    /\ entries = <<>>
    /\ visible = FALSE
    /\ gen = "none"
    /\ attempts = 0
    /\ failed = FALSE
    /\ lastEvent = "none"
    /\ captured = "none"

(***************************************************************************)
(* Static-image card (MediaCard rendering AdaptiveImage).                  *)
(***************************************************************************)
Srcs == {"s1", "s2"}

\* img.naturalHeight / img.naturalWidth of the resource behind a src
RatioOf(s) == IF s = "s1" THEN "0.75" ELSE "1.5"

\* [src, onLoad, onError]: MediaCard passes inline arrow functions, which
\* are new functions in every render of MediaCard
ImageDeps == [ran |-> TRUE, src |-> src, callbacks |-> renders]
NoImageDeps == [ran |-> FALSE, src |-> NULL, callbacks |-> 0]

\* AdaptiveImage's effect, run after the first render and after a render in
\* which a dependency changed: a new Image starts loading src
ImageEffect ==
    /\ imgMounted
    /\ imgEffectDeps # ImageDeps
    /\ imgEffectDeps' = ImageDeps
    /\ loads' = loads \cup {[id |-> renders, src |-> src]}
    /\ started' = [started EXCEPT ![src] = @ + 1]
    /\ UNCHANGED <<imgMounted, src, aspectRatio, renders, loaded, isHovered>>

\* setLoaded(true): MediaCard renders again when the state changes
SetLoaded ==
    IF imgMounted /\ ~loaded
    THEN loaded' = TRUE /\ renders' = renders + 1
    ELSE UNCHANGED <<loaded, renders>>

\* img.onload of an off-DOM Image: setAspectRatio, then onLoad()
ImageLoaded ==
    \E l \in loads :
        /\ loads' = loads \ {l}
        /\ aspectRatio' = IF imgMounted THEN RatioOf(l.src) ELSE aspectRatio
        /\ SetLoaded
        /\ UNCHANGED <<imgMounted, src, imgEffectDeps, started, isHovered>>

\* img.onerror of an off-DOM Image: onError()
ImageErrored ==
    \E l \in loads :
        /\ loads' = loads \ {l}
        /\ SetLoaded
        /\ UNCHANGED <<imgMounted, src, aspectRatio, imgEffectDeps, started,
                       isHovered>>

\* onMouseEnter / onMouseLeave: setIsHovered, MediaCard renders again
Hover ==
    /\ imgMounted
    /\ renders < MaxRenders
    /\ isHovered' = ~isHovered
    /\ renders' = renders + 1
    /\ UNCHANGED <<imgMounted, src, aspectRatio, imgEffectDeps, loads, started,
                   loaded>>

\* MediaCard is rendered with a media of another url
SrcChange ==
    /\ imgMounted
    /\ renders < MaxRenders
    /\ \E u \in Srcs \ {src} : src' = u
    /\ renders' = renders + 1
    /\ UNCHANGED <<imgMounted, aspectRatio, imgEffectDeps, loads, started,
                   loaded, isHovered>>

\* the card unmounts; the effect has no cleanup
ImageUnmount ==
    /\ imgMounted
    /\ imgMounted' = FALSE
    /\ UNCHANGED <<src, aspectRatio, imgEffectDeps, renders, loads, started,
                   loaded, isHovered>>

ImageInit ==
    /\ imgMounted = TRUE
    /\ src \in Srcs
    /\ aspectRatio = NULL
    /\ imgEffectDeps = NoImageDeps
    /\ renders = 0
    /\ loads = {}
    /\ started = [u \in Srcs |-> 0]
    /\ loaded = FALSE
    /\ isHovered = FALSE

\* no image card in the behaviour
ImageIdle ==
    /\ imgMounted = FALSE
    /\ src = "s1"
    /\ aspectRatio = NULL
    /\ imgEffectDeps = NoImageDeps
    /\ renders = 0
    /\ loads = {}
    /\ started = [u \in Srcs |-> 0]
    /\ loaded = FALSE
    /\ isHovered = FALSE

(***************************************************************************)
(* Inputs.                                                                 *)
(***************************************************************************)
\* all strings over chars of at most n characters
StringsUpTo(chars, n) == UNION {[1..k -> chars] : k \in 0..n}

\* segments a client encodes into the parts of a token
SegmentWords == {<<"x">>, <<".", ".">>, <<"/">>, Str3(".", ".", "\\")}

\* parts no encoder produces: a bare percent sign
RawParts == {<<"%">>}

TokenParts == {EncodeURIComponent(w) : w \in SegmentWords} \cup RawParts

\* tokens of one part, and of up to MaxParts parts
SimpleTokens == TokenParts
Tokens == {Join(ps, DELIM) : ps \in UNION {[1..n -> TokenParts] : n \in 1..MaxParts}}

Headers == {NULL, "203.0.113.7"}
Widths == {NULL, "", "100"}
Heights == {NULL, "100"}

Objects ==
    {NoObject, UntypedObject, StoredObject(MediaType("image", "png")),
     StoredObject(MediaType("video", "mp4")), StoredObject(MediaType("text", "plain"))}

Env(limit, windowMs) == [RATE_LIMIT_REQUESTS |-> limit, RATE_LIMIT_WINDOW_MS |-> windowMs]

\* segment sequences given to the encoder
CodecChars == {"x", "_", ".", "/"}
SegmentSeqs ==
    UNION {[1..n -> StringsUpTo(CodecChars, MaxSegLen)] : n \in 1..MaxSegs}

CodecIdle ==
    /\ segs = <<>>
    /\ token = <<>>
    /\ decoded = [ok |-> TRUE, parts |-> <<>>]
    /\ cpc = "idle"

GatewayInit(slots, envs) ==
    /\ kv = [ip \in Ips |-> NoRecord]
    /\ now = 0
    /\ req = [r \in slots |-> IdleRequest]
    /\ nreq = 0
    /\ admitted = [ip \in Ips |-> [t \in 0..MaxTime |-> 0]]
    /\ env \in envs

(***************************************************************************)
(* Spec: the gateway, one request at a time, every response shape.         *)
(***************************************************************************)
Init ==
    /\ GatewayInit({1}, {Env(2, 0)})
    /\ CodecIdle
    /\ CardIdle
    /\ ImageIdle

Next ==
    \/ \E r \in Slots : Receive(r, Headers, SimpleTokens, Widths, Heights)
                           /\ UNCHANGED <<codecVars, cardVars, imageVars>>
    \/ \E r \in Slots : CheckRateLimitGet(r) /\ UNCHANGED <<codecVars, cardVars, imageVars>>
    \/ \E r \in Slots : CheckRateLimitPut(r) /\ UNCHANGED <<codecVars, cardVars, imageVars>>
    \/ \E r \in Slots : GatewayContinue(r) /\ UNCHANGED <<codecVars, cardVars, imageVars>>
    \/ \E r \in Slots : StoreReply(r, Objects) /\ UNCHANGED <<codecVars, cardVars, imageVars>>

Spec == Init /\ [][Next]_vars

(***************************************************************************)
(* SpecKeys: the gateway on every token of up to MaxParts parts.           *)
(***************************************************************************)
NextKeys ==
    \/ \E r \in Slots : Receive(r, {NULL}, Tokens, {NULL}, {NULL})
                           /\ UNCHANGED <<codecVars, cardVars, imageVars>>
    \/ \E r \in Slots : CheckRateLimitGet(r) /\ UNCHANGED <<codecVars, cardVars, imageVars>>
    \/ \E r \in Slots : CheckRateLimitPut(r) /\ UNCHANGED <<codecVars, cardVars, imageVars>>
    \/ \E r \in Slots : GatewayContinue(r) /\ UNCHANGED <<codecVars, cardVars, imageVars>>
    \/ \E r \in Slots : StoreReply(r, {NoObject, UntypedObject}) /\ UNCHANGED <<codecVars, cardVars, imageVars>>

SpecKeys == Init /\ [][NextKeys]_vars

(***************************************************************************)
(* SpecRate: requests one at a time while time passes.                     *)
(***************************************************************************)
RateEnvs == {Env(l, w) : l \in {1, 2}, w \in {0, 2}}

InitRate ==
    /\ GatewayInit({1}, RateEnvs)
    /\ CodecIdle
    /\ CardIdle
    /\ ImageIdle

NextRate ==
    \/ \E r \in Slots : Receive(r, Headers, {<<"x">>}, {NULL}, {NULL})
                           /\ UNCHANGED <<codecVars, cardVars, imageVars>>
    \/ \E r \in Slots : CheckRateLimitGet(r) /\ UNCHANGED <<codecVars, cardVars, imageVars>>
    \/ \E r \in Slots : CheckRateLimitPut(r) /\ UNCHANGED <<codecVars, cardVars, imageVars>>
    \/ \E r \in Slots : GatewayContinue(r) /\ UNCHANGED <<codecVars, cardVars, imageVars>>
    \/ \E r \in Slots : StoreReply(r, {NoObject, UntypedObject}) /\ UNCHANGED <<codecVars, cardVars, imageVars>>
    \/ Tick /\ UNCHANGED <<codecVars, cardVars, imageVars>>

SpecRate == InitRate /\ [][NextRate]_vars

(***************************************************************************)
(* SpecRace: two invocations of one client interleave at their awaits.     *)
(***************************************************************************)
InitRace ==
    /\ GatewayInit({1, 2}, {Env(1, 2), Env(2, 2)})
    /\ CodecIdle
    /\ CardIdle
    /\ ImageIdle

NextRace ==
    \/ \E r \in Slots : Receive(r, {NULL}, {<<"x">>}, {NULL}, {NULL})
                           /\ UNCHANGED <<codecVars, cardVars, imageVars>>
    \/ \E r \in Slots : CheckRateLimitGet(r) /\ UNCHANGED <<codecVars, cardVars, imageVars>>
    \/ \E r \in Slots : CheckRateLimitPut(r) /\ UNCHANGED <<codecVars, cardVars, imageVars>>
    \/ \E r \in Slots : GatewayContinue(r) /\ UNCHANGED <<codecVars, cardVars, imageVars>>
    \/ \E r \in Slots : StoreReply(r, {UntypedObject}) /\ UNCHANGED <<codecVars, cardVars, imageVars>>
    \/ Tick /\ UNCHANGED <<codecVars, cardVars, imageVars>>

SpecRace == InitRace /\ [][NextRace]_vars

(***************************************************************************)
(* SpecCodec: encode then decode, for every segment sequence.              *)
(***************************************************************************)
InitCodec ==
    /\ GatewayInit({1}, {Env(0, 0)})
    /\ segs \in SegmentSeqs
    /\ token = <<>>
    /\ decoded = [ok |-> TRUE, parts |-> <<>>]
    /\ cpc = "input"
    /\ CardIdle
    /\ ImageIdle

NextCodec ==
    \/ CodecEncode
    \/ CodecDecode

SpecCodec == InitCodec /\ [][NextCodec]_vars

(***************************************************************************)
(* SpecCard: one video card from mount to unmount.                         *)
(***************************************************************************)
InitCard ==
    /\ GatewayInit({1}, {Env(0, 0)})
    /\ CodecIdle
    /\ CardInit({NULL, "div"})
    /\ ImageIdle

NextCard ==
    \/ RunEffect /\ UNCHANGED <<gatewayVars, codecVars, imageVars>>
    \/ Scroll /\ UNCHANGED <<gatewayVars, codecVars, imageVars>>
    \/ ObserverCallback /\ UNCHANGED <<gatewayVars, codecVars, imageVars>>
    \/ MetadataLoaded /\ UNCHANGED <<gatewayVars, codecVars, imageVars>>
    \/ MetadataError /\ UNCHANGED <<gatewayVars, codecVars, imageVars>>
    \/ Seeked /\ UNCHANGED <<gatewayVars, codecVars, imageVars>>
    \/ SeekError /\ UNCHANGED <<gatewayVars, codecVars, imageVars>>
    \/ UrlChange /\ UNCHANGED <<gatewayVars, codecVars, imageVars>>
    \/ Unmount /\ UNCHANGED <<gatewayVars, codecVars, imageVars>>

SpecCard == InitCard /\ [][NextCard]_vars

\* SpecCardFair: the steps the browser schedules by itself are taken: a
\* pending effect runs and a queued intersection entry is delivered.  The
\* media events (loadedmetadata, seeked, error), scrolling, prop changes and
\* unmounting are the environment's and may never come.
CardFairness ==
    /\ WF_vars(RunEffect /\ UNCHANGED <<gatewayVars, codecVars, imageVars>>)
    /\ WF_vars(ObserverCallback /\ UNCHANGED <<gatewayVars, codecVars, imageVars>>)

SpecCardFair == InitCard /\ [][NextCard]_vars /\ CardFairness

(***************************************************************************)
(* SpecImage: one static-image card.                                       *)
(***************************************************************************)
InitImage ==
    /\ GatewayInit({1}, {Env(0, 0)})
    /\ CodecIdle
    /\ CardIdle
    /\ ImageInit

NextImage ==
    \/ ImageEffect /\ UNCHANGED <<gatewayVars, codecVars, cardVars>>
    \/ ImageLoaded /\ UNCHANGED <<gatewayVars, codecVars, cardVars>>
    \/ ImageErrored /\ UNCHANGED <<gatewayVars, codecVars, cardVars>>
    \/ Hover /\ UNCHANGED <<gatewayVars, codecVars, cardVars>>
    \/ SrcChange /\ UNCHANGED <<gatewayVars, codecVars, cardVars>>
    \/ ImageUnmount /\ UNCHANGED <<gatewayVars, codecVars, cardVars>>

SpecImage == InitImage /\ [][NextImage]_vars

(***************************************************************************)
(* Properties of the gateway.                                              *)
(***************************************************************************)
\* the request has its rate-limit answer
Decided(q) == q.pc \in {"rateDone", "storeGet", "done"}

\* the request continued past the rate-limit test
PastRateLimit(q) == q.pc \in {"storeGet", "done"}

\* the '/'-joined decoded key of a request whose token decodes
DecodedKey(q) == JoinPath(DecodeParts(q.keyParam).parts)

\* some '/'-separated segment of the path is ".."
HasDotDotSegment(key) ==
    \E i \in 1..Len(Split(key, <<"/">>)) : Split(key, <<"/">>)[i] = <<".", ".">>

Traversal(key) ==
    \/ HasDotDotSegment(key)
    \/ Includes(key, Str3(".", ".", "\\"))
    \/ StartsWith(key, <<"/">>)

\* C1: a request that passes the rate limit and whose decoded key has a ".."
\* segment in any position, contains "..\", or starts with "/", is answered
\* 400 and never reaches the object store.
C1_TraversalRejected ==
    \A r \in Slots :
        LET q == req[r]
        IN  (PastRateLimit(q) /\ q.allowed /\ DecodeParts(q.keyParam).ok
             /\ Traversal(DecodedKey(q)))
            => (q.pc = "done" /\ q.resp.status = 400 /\ q.gets = 0)

\* C2: a request the rate limiter rejects is answered 429 with no decoding, no
\* path check and no store access; a 200, 400 or 404 answer is given only to
\* a request the rate limiter allowed.
C2_RateLimitFirst ==
    \A r \in Slots :
        LET q == req[r]
        IN  /\ (Decided(q) /\ ~q.allowed)
               => (~q.decodedKey /\ ~q.checked /\ q.gets = 0 /\ q.pc # "storeGet"
                   /\ (q.pc = "done" => q.resp.status = 429))
            /\ q.resp.status \in {200, 400, 404} => (Decided(q) /\ q.allowed)
            /\ q.gets > 0 => q.allowed

C2_Witness ==
    \E r \in Slots : req[r].pc = "done" /\ req[r].resp.status = 429

\* the window a request found: none stored, or elapsed
FoundNoWindow(q) ==
    \/ ~q.rlRec.present
    \/ q.rlNow - q.rlRec.windowStart >=
         (IF env.RATE_LIMIT_WINDOW_MS = 0 THEN 60000 ELSE env.RATE_LIMIT_WINDOW_MS)

Min(a, b) == IF a < b THEN a ELSE b

\* C3: with requests one at a time, the first L requests of a window are
\* allowed and every further one in that window is answered 429; the first
\* request at or after windowStart + W is allowed and resets the record to
\* count = 1, windowStart = now.
C3_FixedWindow ==
    \A r \in Slots :
        LET q == req[r]
            ip == ClientIp(q.header)
            L == env.RATE_LIMIT_REQUESTS
        IN  Decided(q) =>
              /\ FoundNoWindow(q)
                   => (q.allowed /\ kv[ip].count = 1 /\ kv[ip].windowStart = q.rlNow)
              /\ ~FoundNoWindow(q)
                   => (kv[ip].windowStart = q.rlRec.windowStart
                       /\ kv[ip].count = q.rlRec.count + 1)
              /\ q.allowed <=> kv[ip].count <= L
              /\ admitted[ip][kv[ip].windowStart] = Min(kv[ip].count, L)
              /\ q.pc = "done" => (q.resp.status = 429 <=> ~q.allowed)

\* a request allowed by a window reset after a rejection in the window before
C3_Witness ==
    \E r \in Slots :
        /\ req[r].pc = "done"
        /\ req[r].resp.status # 429
        /\ req[r].rlRec.present
        /\ req[r].rlRec.count > env.RATE_LIMIT_REQUESTS
        /\ kv[ClientIp(req[r].header)].count = 1

Present(v) == v # NULL
NonEmpty(v) == v # NULL /\ v # ""

VideoAnswer(resp) ==
    resp.status = 400 /\ resp.body = "json" /\ {"error", "suggestion"} \subseteq resp.fields

ImageAnswer(q) ==
    /\ q.resp.status = 200
    /\ q.resp.body = "bytes"
    /\ q.resp.contentType = q.obj.contentType

Negotiated(q) == q.pc = "done" /\ q.gets = 1 /\ q.obj.found

\* C4 as stated: with width or height present, a video object is answered
\* 400 with error and suggestion, an image object 200 with its bytes and type.
C4_Original ==
    \A r \in Slots :
        LET q == req[r]
        IN  (Negotiated(q) /\ q.obj.hasType /\ (Present(q.width) \/ Present(q.height)))
            => /\ q.obj.contentType.major = "video" => VideoAnswer(q.resp)
               /\ q.obj.contentType.major = "image" => ImageAnswer(q)

\* C4, amended: with width or height present and not empty, a video object is
\* answered 400 with error and suggestion, an image object 200 with its bytes
\* and its stored content type.
C4_Negotiation ==
    \A r \in Slots :
        LET q == req[r]
        IN  (Negotiated(q) /\ q.obj.hasType /\ (NonEmpty(q.width) \/ NonEmpty(q.height)))
            => /\ q.obj.contentType.major = "video" => VideoAnswer(q.resp)
               /\ q.obj.contentType.major = "image" => ImageAnswer(q)

\* a video asked for by height alone, refused
C4_Witness ==
    \E r \in Slots :
        /\ Negotiated(req[r])
        /\ req[r].width = NULL
        /\ req[r].height = "100"
        /\ req[r].obj.contentType.major = "video"
        /\ VideoAnswer(req[r].resp)

\* C5: when the store has no object for an allowed request with an accepted
\* key, the answer is 404 whatever the query; 404 is given in no other case.
C5_MissingIs404 ==
    \A r \in Slots :
        LET q == req[r]
        IN  q.pc = "done" =>
              (q.resp.status = 404 <=> (q.allowed /\ q.gets = 1 /\ ~q.obj.found))

\* a miss on a request that asks for a resize
C5_Witness ==
    \E r \in Slots :
        /\ req[r].pc = "done"
        /\ ~req[r].obj.found
        /\ req[r].gets = 1
        /\ req[r].width = "100"
        /\ req[r].height = "100"
        /\ req[r].resp.status = 404

\* C6: a token with a part that is not valid percent-encoding is answered 400
\* without store access, and every answer is 200, 400, 404 or 429.
C6_MalformedIs400 ==
    \A r \in Slots :
        LET q == req[r]
        IN  q.pc = "done" =>
              /\ q.resp.status \in {200, 400, 404, 429}
              /\ (q.allowed /\ ~DecodeParts(q.keyParam).ok)
                   => (q.resp.status = 400 /\ q.gets = 0)

(***************************************************************************)
(* Properties of the key codec.                                            *)
(***************************************************************************)
\* no segment holds the delimiter or "..", none starts with "/"
PlainSegments(ss) ==
    \A i \in 1..Len(ss) :
        /\ ~Includes(ss[i], DELIM)
        /\ ~Includes(ss[i], <<".", ".">>)
        /\ ~StartsWith(ss[i], <<"/">>)

\* C7: for segments without the delimiter, without ".." and without a
\* leading slash, decoding the encoded token gives the segments back.
C7_RoundTrip ==
    (cpc = "decoded" /\ PlainSegments(segs))
    => (decoded.ok /\ decoded.parts = segs /\ JoinPath(decoded.parts) = JoinPath(segs))

\* C8: the delimiter never occurs in the percent-encoding of a segment, and
\* splitting the token of N segments on the delimiter gives N parts.
C8_DelimiterReserved ==
    cpc \in {"encoded", "decoded"}
    => /\ \A i \in 1..Len(segs) : ~Includes(EncodeURIComponent(segs[i]), DELIM)
       /\ Len(Split(token, DELIM)) = Len(segs)

(***************************************************************************)
(* Properties of the rate limiter under concurrent requests.               *)
(***************************************************************************)
\* a request is answered 429 only when the window it read is current and
\* already admitted at least Limit requests
RejectedOnlyOverLimit ==
    \A r \in Slots :
        LET q == req[r]
        IN  (q.pc = "done" /\ q.resp.status = 429)
            => /\ q.rlRec.present
               /\ q.rlNow - q.rlRec.windowStart < WindowMs
               /\ admitted[ClientIp(q.header)][q.rlRec.windowStart] >= Limit

\* request r stores its record in this step
Stores(r) == req[r].pc = "ratePut" /\ req'[r].pc = "rateDone"

\* request r stores a window reset in this step
StoresReset(r) ==
    /\ Stores(r)
    /\ kv'[ClientIp(req[r].header)] =
         [present |-> TRUE, windowStart |-> req[r].rlNow, count |-> 1]

\* request r stores in this step after other requests stored behind its read
StoresStale(r) ==
    /\ Stores(r)
    /\ kv[ClientIp(req[r].header)] # req[r].rlRec

SeekCompletes == mounted /\ gen = "seek" /\ lastEvent' = "seeked"

PassesPathCheck(key) ==
    /\ ~Includes(key, Str3(".", ".", "/"))
    /\ ~Includes(key, Str3(".", ".", "\\"))
    /\ ~StartsWith(key, <<"/">>)

\* C13: a request never writes to the object store, and reads it at most
\* once, only after the rate limiter allowed the request and the joined key
\* passed the path check.
C13_StoreReadOnly ==
    \A r \in Slots :
        /\ req[r].puts = 0
        /\ req[r].gets <= 1
        /\ req[r].gets > 0 =>
              /\ req[r].allowed
              /\ req[r].checked
              /\ PassesPathCheck(req[r].key)

\* a request answered from the object store after one lookup, its rate-limit
\* record written
C13_Witness ==
    \E r \in Slots :
        /\ req[r].pc = "done"
        /\ req[r].gets = 1
        /\ req[r].resp.status = 200
        /\ kv[ClientIp(req[r].header)] # NoRecord

\* the premise of C14: allowed, object found, not a resize of a video
PlainDelivery(r) ==
    /\ req[r].pc = "done"
    /\ req[r].gets = 1
    /\ req[r].obj.found
    /\ ~(/\ NonEmpty(req[r].width) \/ NonEmpty(req[r].height)
         /\ req[r].obj.hasType
         /\ req[r].obj.contentType.major = "video")

\* C14: an allowed request for an existing object that is not a resize of a
\* video is answered 200 with the object body, the stored content type (or
\* application/octet-stream when none is stored) and the one-year public
\* cache-control.
C14_PlainDelivery ==
    \A r \in Slots :
        PlainDelivery(r) =>
            /\ req[r].resp.status = 200
            /\ req[r].resp.body = "bytes"
            /\ req[r].resp.contentType =
                  (IF req[r].obj.hasType /\ req[r].obj.contentType # NoType
                   THEN req[r].obj.contentType
                   ELSE OctetStream)
            /\ req[r].resp.cacheControl = OneYear

\* a resize request for an object stored without a content type
C14_Witness ==
    \E r \in Slots :
        /\ PlainDelivery(r)
        /\ req[r].width = "100"
        /\ ~req[r].obj.hasType
        /\ req[r].resp.contentType = OctetStream

\* C15: at most one capture attempt is in flight per card: while an attempt
\* of a mounted card runs the in-flight flag is set, and an attempt starts
\* only when the flag is clear and no attempt runs.
C15_OneInFlight ==
    /\ []((mounted /\ gen # "none") => isGeneratingThumb)
    /\ [][attempts' # attempts =>
              (gen = "none" /\ ~isGeneratingThumb /\ isGeneratingThumb')]_vars

\* a second attempt in flight, started after the first one ended and the
\* effect ran again
C15_Witness ==
    /\ mounted
    /\ attempts = 2
    /\ gen = "seek"
    /\ isGeneratingThumb
    /\ effectDeps = Deps

\* the step on which the assignment of currentTime throws
SeekThrows == gen = "metadata" /\ lastEvent' = "seekThrew"

\* C16: when setting the seek position throws, the attempt does not wait for
\* 'seeked' and does not fail for it: it goes on to the canvas step, whose
\* result alone decides between a stored image and a failure; afterwards no
\* 'seeked' or 'error' event of that attempt acts.
C16_SeekThrowCaught ==
    [][/\ SeekThrows =>
              /\ gen' = "none"
              /\ captured' # "none"
              /\ captured' # "threw" => failed' = failed
              /\ (mounted /\ captured' = "stored") => videoThumb' = DataUrl
       /\ lastEvent = "seekThrew" => lastEvent' \in {"seekThrew", "none"}
      ]_vars

\* a card rendered by an attempt whose seek assignment threw
C16_Witness ==
    /\ lastEvent = "seekThrew"
    /\ captured = "stored"
    /\ videoThumb = DataUrl
    /\ ~failed
    /\ gen = "none"

C20_ObserverExclusive ==
    /\ observer => (~isGeneratingThumb /\ videoThumb = NULL)
    /\ observers = (IF observer THEN 1 ELSE 0)

\* an observer registered again by the effect run that followed an attempt
C20_Witness ==
    /\ mounted
    /\ observer
    /\ observers = 1
    /\ attempts = 1
    /\ gen = "none"
    /\ effectDeps = Deps

\* C18: the reserved aspect ratio, once measured, never returns to the
\* placeholder and never changes.
C18_RatioFixed ==
    [][aspectRatio # NULL => aspectRatio' = aspectRatio]_vars

\* C19: the off-DOM measuring load is started at most once per card and
\* source.
C19_MeasuredOnce ==
    \A u \in Srcs : started[u] <= 1

====
